---- MODULE Spec2Model ----
(***************************************************************************)
(* A model of app/main.py: the pattern parser (PatternParser), the matcher *)
(* classes (one match operator per Matcher subclass) and match_pattern.    *)
(*                                                                         *)
(* Text is a sequence of one-character strings.  Offsets are the code's    *)
(* 0-based offsets: the character at offset i of s is s[i + 1].            *)
(* A MatchState is [pos, groups]; the groups dict is the set of its        *)
(* <<group_id, captured text>> items (one item per key), which is what     *)
(* MatchState.__eq__ and __hash__ compare.                                 *)
(***************************************************************************)
EXTENDS Integers, Sequences, FiniteSets, TLC

VARIABLES
    pattern,            \* match_pattern's pattern argument
    input_line,         \* match_pattern's input_line argument
    pc,                 \* where the call stands
    matcher,            \* parser.parse()'s result (NoMatcher before and on error)
    error,              \* the ValueError's message, "" when none was raised
    start_pos,          \* the for loop's variable in match_pattern
    states,             \* the last matcher.match(...) result
    verdict,            \* match_pattern's return value ("none" until it returns)
    state,              \* the MatchState handed to a match call under study
    last_iter_states,   \* PlusMatcher.match / StarMatcher.match loop variable
    iterations,         \* loop iterations the quantifier loop has completed
    heap,               \* the groups dicts that exist, by reference
    results             \* the MatchState objects a match call returned

vars == <<pattern, input_line, pc, matcher, error, start_pos, states, verdict,
          state, last_iter_states, iterations, heap, results>>

----------------------------------------------------------------------------
(* Characters *)

None == "None"

DigitChars == <<"0", "1", "2", "3", "4", "5", "6", "7", "8", "9">>

LetterChars ==
    {"a", "b", "c", "d", "e", "f", "g", "h", "i", "j", "k", "l", "m",
     "n", "o", "p", "q", "r", "s", "t", "u", "v", "w", "x", "y", "z",
     "A", "B", "C", "D", "E", "F", "G", "H", "I", "J", "K", "L", "M",
     "N", "O", "P", "Q", "R", "S", "T", "U", "V", "W", "X", "Y", "Z"}

isdigit(c) == \E d \in 1..Len(DigitChars) : DigitChars[d] = c

isalnum(c) == isdigit(c) \/ c \in LetterChars

DigitValue(c) == (CHOOSE d \in 1..Len(DigitChars) : DigitChars[d] = c) - 1

RECURSIVE int(_)
int(digits) ==
    IF Len(digits) = 0 THEN 0
    ELSE 10 * int(SubSeq(digits, 1, Len(digits) - 1)) + DigitValue(digits[Len(digits)])

Min(a, b) == IF a < b THEN a ELSE b

\* Python's s[a:b] for 0 <= a
Slice(s, a, b) == SubSeq(s, a + 1, Min(b, Len(s)))

----------------------------------------------------------------------------
(* Matcher objects *)

LiteralMatcher(char) == [k |-> "Literal", char |-> char]
DigitMatcher == [k |-> "Digit"]
WordMatcher == [k |-> "Word"]
SequenceMatcher(matchers) == [k |-> "Sequence", matchers |-> matchers]
AlternationMatcher(left, right) == [k |-> "Alternation", left |-> left, right |-> right]
OptionalMatcher(m) == [k |-> "Optional", matcher |-> m]
PlusMatcher(m) == [k |-> "Plus", matcher |-> m]
StarMatcher(m) == [k |-> "Star", matcher |-> m]
AnchorStartMatcher == [k |-> "AnchorStart"]
AnchorEndMatcher == [k |-> "AnchorEnd"]
AnyMatcher == [k |-> "Any"]
CharClassMatcher(charset, is_negated) ==
    [k |-> "CharClass", charset |-> charset, is_negated |-> is_negated]
CaptureGroupMatcher(m, group_id) == [k |-> "CaptureGroup", matcher |-> m, group_id |-> group_id]
BackreferenceMatcher(group_id) == [k |-> "Backreference", group_id |-> group_id]

NoMatcher == [k |-> "NoMatcher"]

----------------------------------------------------------------------------
(* PatternParser.  A parse method is an operator from the parser's fields  *)
(* (pattern p, index i, next_group_id g) to a record holding the method's  *)
(* result and the fields as it leaves them, or the ValueError it raises.   *)

Parsed(node, i, g) == [err |-> "", node |-> node, i |-> i, next_group_id |-> g]
Raise(msg) == [err |-> msg, node |-> NoMatcher, i |-> 0, next_group_id |-> 0]

peek(p, i) == IF i < Len(p) THEN p[i + 1] ELSE None

RECURSIVE parse_expression(_, _, _)
RECURSIVE parse_expression_loop(_, _)
RECURSIVE parse_term_loop(_, _, _, _)

\* the while loop collecting a backreference's further digits
RECURSIVE backreference_digits(_, _, _)
backreference_digits(p, i, digits) ==
    IF peek(p, i) # None /\ isdigit(peek(p, i))
    THEN backreference_digits(p, i + 1, Append(digits, p[i + 1]))
    ELSE [digits |-> digits, i |-> i]

\* the while loop of parse_charset; c is the member read, escaped or not
RECURSIVE parse_charset_loop(_, _, _)
parse_charset_loop(p, i, charset) ==
    IF peek(p, i) # None /\ peek(p, i) # "]"
    THEN IF p[i + 1] = "\\" /\ peek(p, i + 1) # None
         THEN parse_charset_loop(p, i + 2, charset \cup {p[i + 2]})
         ELSE parse_charset_loop(p, i + 1, charset \cup {p[i + 1]})
    ELSE [charset |-> charset, i |-> i]

parse_charset(p, i, g) ==
    LET is_negated == peek(p, i + 1) = "^"
        from == IF is_negated THEN i + 2 ELSE i + 1
        body == parse_charset_loop(p, from, {})
    IN  IF peek(p, body.i) # "]"
        THEN Raise("Expected closing bracket ']'")
        ELSE Parsed(CharClassMatcher(body.charset, is_negated), body.i + 1, g)

parse_escape(p, i, g) ==
    \* i is the offset after the backslash
    IF peek(p, i) = None THEN Raise("Incomplete escape sequence")
    ELSE LET next_c == p[i + 1] IN
         IF next_c = "d" THEN Parsed(DigitMatcher, i + 1, g)
         ELSE IF next_c = "w" THEN Parsed(WordMatcher, i + 1, g)
         ELSE IF isdigit(next_c)
         THEN LET ds == backreference_digits(p, i + 1, <<next_c>>)
              IN  Parsed(BackreferenceMatcher(int(ds.digits)), ds.i, g)
         ELSE Parsed(LiteralMatcher(next_c), i + 1, g)

\* the check of the closing parenthesis, once the group's expression is parsed
parse_group_close(p, group_id, expr) ==
    IF expr.err # "" THEN expr
    ELSE IF peek(p, expr.i) # ")"
    THEN Raise("Expected closing parenthesis ')'")
    ELSE Parsed(CaptureGroupMatcher(expr.node, group_id), expr.i + 1,
                expr.next_group_id)

\* a parser that numbers a group when its closing parenthesis is read
parse_group_close_numbered(p, expr) ==
    parse_group_close(p, expr.next_group_id,
                      [expr EXCEPT !.next_group_id = expr.next_group_id + 1])

parse_group_numbered_at_close(p, i, g) ==
    LET expr == parse_expression(p, i, g) IN
    IF expr.err # "" THEN expr ELSE parse_group_close_numbered(p, expr)

parse_group(p, i, g) ==
    \* i is the offset after the opening parenthesis; group_id = g, next_group_id = g + 1
    parse_group_close(p, g, parse_expression(p, i, g + 1))

parse_atom(p, i, g) ==
    IF peek(p, i) = None THEN Raise("Unexpected end of pattern")
    ELSE IF peek(p, i) = "^" THEN Parsed(AnchorStartMatcher, i + 1, g)
    ELSE IF peek(p, i) = "$" THEN Parsed(AnchorEndMatcher, i + 1, g)
    ELSE IF peek(p, i) = "." THEN Parsed(AnyMatcher, i + 1, g)
    ELSE IF peek(p, i) = "\\" THEN parse_escape(p, i + 1, g)
    ELSE IF peek(p, i) = "[" THEN parse_charset(p, i, g)
    ELSE IF peek(p, i) = "(" THEN parse_group(p, i + 1, g)
    ELSE Parsed(LiteralMatcher(p[i + 1]), i + 1, g)

\* parse_factor after its parse_atom call
parse_quantifier(p, atom) ==
    IF atom.err # "" THEN atom
    ELSE IF peek(p, atom.i) = "?"
    THEN Parsed(OptionalMatcher(atom.node), atom.i + 1, atom.next_group_id)
    ELSE IF peek(p, atom.i) = "+"
    THEN Parsed(PlusMatcher(atom.node), atom.i + 1, atom.next_group_id)
    ELSE IF peek(p, atom.i) = "*"
    THEN Parsed(StarMatcher(atom.node), atom.i + 1, atom.next_group_id)
    ELSE atom

parse_factor(p, i, g) == parse_quantifier(p, parse_atom(p, i, g))

\* parts.append(factor), and the while loop goes on
parse_term_append(p, parts, factor) ==
    IF factor.err # "" THEN factor
    ELSE parse_term_loop(p, factor.i, factor.next_group_id, Append(parts, factor.node))

\* a parser that takes a term with no factor for an empty sequence
parse_term_loop_empty_allowed(p, i, g, parts) ==
    IF peek(p, i) # None /\ peek(p, i) \notin {"|", ")"}
    THEN parse_term_append(p, parts, parse_factor(p, i, g))
    ELSE IF Len(parts) = 1 THEN Parsed(parts[1], i, g)
    ELSE Parsed(SequenceMatcher(parts), i, g)

parse_term_loop(p, i, g, parts) ==
    IF peek(p, i) # None /\ peek(p, i) \notin {"|", ")"}
    THEN parse_term_append(p, parts, parse_factor(p, i, g))
    ELSE IF Len(parts) = 0 THEN Raise("Empty term in pattern")
    ELSE IF Len(parts) = 1 THEN Parsed(parts[1], i, g)
    ELSE Parsed(SequenceMatcher(parts), i, g)

parse_term(p, i, g) == parse_term_loop(p, i, g, <<>>)

\* left = AlternationMatcher(left, right), and the while loop goes on
parse_alternation(p, left, right) ==
    IF right.err # "" THEN right
    ELSE parse_expression_loop(p,
             Parsed(AlternationMatcher(left.node, right.node), right.i,
                    right.next_group_id))

parse_expression_loop(p, left) ==
    IF left.err # "" THEN left
    ELSE IF peek(p, left.i) = "|"
    THEN parse_alternation(p, left, parse_term(p, left.i + 1, left.next_group_id))
    ELSE left

parse_expression(p, i, g) == parse_expression_loop(p, parse_term(p, i, g))

\* parse after its parse_expression call
parse_end(p, res) ==
    IF res.err # "" THEN res
    ELSE IF peek(p, res.i) # None
    THEN Raise("Unexpected characters at end of pattern")
    ELSE res

\* PatternParser(pattern).parse(): i starts at 0 and next_group_id at 1
parse(p) == parse_end(p, parse_expression(p, 0, 1))

----------------------------------------------------------------------------
(* Matcher.match.  A call either returns a set of MatchStates or never     *)
(* returns.  The loops of PlusMatcher.match and StarMatcher.match are      *)
(* driven by one loop variable (last_iter_states, current_states) whose    *)
(* next value is a function of its present value; over the finitely many   *)
(* MatchStates of a line such a loop fails to exit exactly when a value of *)
(* the loop variable comes back, which is how Diverges is decided.         *)

MatchState(pos, groups) == [pos |-> pos, groups |-> groups]

Returns(S) == [hang |-> FALSE, states |-> S]
Diverges == [hang |-> TRUE, states |-> {}]

\* dict(groups) with groups[group_id] = captured
SetGroup(groups, group_id, captured) ==
    {item \in groups : item[1] # group_id} \cup {<<group_id, captured>>}

HasGroup(groups, group_id) == \E item \in groups : item[1] = group_id

GetGroup(groups, group_id) == (CHOOSE item \in groups : item[1] = group_id)[2]

RECURSIVE Match(_, _, _)

LiteralMatcher_match(m, line, st) ==
    IF st.pos < Len(line) /\ line[st.pos + 1] = m.char
    THEN Returns({MatchState(st.pos + 1, st.groups)})
    ELSE Returns({})

DigitMatcher_match(m, line, st) ==
    IF st.pos < Len(line) /\ isdigit(line[st.pos + 1])
    THEN Returns({MatchState(st.pos + 1, st.groups)})
    ELSE Returns({})

WordMatcher_match(m, line, st) ==
    IF st.pos < Len(line) /\ (isalnum(line[st.pos + 1]) \/ line[st.pos + 1] = "_")
    THEN Returns({MatchState(st.pos + 1, st.groups)})
    ELSE Returns({})

\* for st in S: next_states |= m.match(line, st)
ForEach(m, line, S) ==
    LET outcomes == {Match(m, line, st) : st \in S} IN
    IF \E r \in outcomes : r.hang THEN Diverges
    ELSE Returns(UNION {r.states : r \in outcomes})

\* the for loop of SequenceMatcher.match from its j-th matcher on
RECURSIVE SequenceMatcher_loop(_, _, _, _)
SequenceMatcher_loop(matchers, j, line, S) ==
    IF j > Len(matchers) THEN Returns(S)
    ELSE LET next_states == ForEach(matchers[j], line, S) IN
         IF next_states.hang THEN Diverges
         ELSE IF next_states.states = {} THEN Returns({})
         ELSE SequenceMatcher_loop(matchers, j + 1, line, next_states.states)

SequenceMatcher_match(m, line, st) == SequenceMatcher_loop(m.matchers, 1, line, {st})

AlternationMatcher_match(m, line, st) ==
    LET l == Match(m.left, line, st) IN
    IF l.hang THEN Diverges
    ELSE LET r == Match(m.right, line, st) IN
         IF r.hang THEN Diverges ELSE Returns(l.states \cup r.states)

OptionalMatcher_match(m, line, st) ==
    LET r == Match(m.matcher, line, st) IN
    IF r.hang THEN Diverges
    ELSE Returns(r.states \cup {MatchState(st.pos, st.groups)})

\* a pass that keeps the states of the last repetition only
PlusMatcher_iteration_last_only(m, line, S, last) ==
    LET next_states == ForEach(m.matcher, line, last) IN
    IF next_states.hang THEN [exit |-> FALSE, hang |-> TRUE, states |-> S, last |-> last]
    ELSE IF next_states.states = {}
    THEN [exit |-> TRUE, hang |-> FALSE, states |-> S, last |-> last]
    ELSE [exit |-> FALSE, hang |-> FALSE, states |-> next_states.states,
          last |-> next_states.states]

\* one pass of PlusMatcher.match's while loop: what it does to (states, last_iter_states)
PlusMatcher_iteration(m, line, S, last) ==
    LET next_states == ForEach(m.matcher, line, last) IN
    IF next_states.hang THEN [exit |-> FALSE, hang |-> TRUE, states |-> S, last |-> last]
    ELSE IF next_states.states = {}
    THEN [exit |-> TRUE, hang |-> FALSE, states |-> S, last |-> last]
    ELSE [exit |-> FALSE, hang |-> FALSE, states |-> S \cup next_states.states,
          last |-> next_states.states]

RECURSIVE PlusMatcher_loop(_, _, _, _, _)
PlusMatcher_loop(m, line, S, last, seen) ==
    IF last = {} THEN Returns(S)
    ELSE IF last \in seen THEN Diverges
    ELSE LET it == PlusMatcher_iteration(m, line, S, last) IN
         IF it.hang THEN Diverges
         ELSE IF it.exit THEN Returns(it.states)
         ELSE PlusMatcher_loop(m, line, it.states, it.last, seen \cup {last})

PlusMatcher_match(m, line, st) ==
    LET first == Match(m.matcher, line, st) IN
    IF first.hang THEN Diverges
    ELSE IF first.states = {} THEN Returns({})
    ELSE PlusMatcher_loop(m, line, first.states, first.states, {})

\* one pass of StarMatcher.match's while loop: what it does to (states, current_states)
StarMatcher_iteration(m, line, S, current) ==
    LET next_states == ForEach(m.matcher, line, current) IN
    IF next_states.hang THEN [hang |-> TRUE, states |-> S, current |-> current]
    ELSE [hang |-> FALSE, states |-> S \cup next_states.states,
          current |-> next_states.states]

RECURSIVE StarMatcher_loop(_, _, _, _, _)
StarMatcher_loop(m, line, S, current, seen) ==
    IF current = {} THEN Returns(S)
    ELSE IF current \in seen THEN Diverges
    ELSE LET it == StarMatcher_iteration(m, line, S, current) IN
         IF it.hang THEN Diverges
         ELSE StarMatcher_loop(m, line, it.states, it.current, seen \cup {current})

StarMatcher_match(m, line, st) == StarMatcher_loop(m, line, {st}, {st}, {})

AnchorStartMatcher_match(m, line, st) ==
    IF st.pos = 0 THEN Returns({MatchState(0, st.groups)}) ELSE Returns({})

AnchorEndMatcher_match(m, line, st) ==
    IF st.pos = Len(line) THEN Returns({MatchState(st.pos, st.groups)}) ELSE Returns({})

AnyMatcher_match(m, line, st) ==
    IF st.pos < Len(line) THEN Returns({MatchState(st.pos + 1, st.groups)}) ELSE Returns({})

CharClassMatcher_match(m, line, st) ==
    IF st.pos >= Len(line) THEN Returns({})
    ELSE LET ch == line[st.pos + 1]
             matches == IF m.is_negated THEN ch \notin m.charset ELSE ch \in m.charset
         IN  IF matches THEN Returns({MatchState(st.pos + 1, st.groups)}) ELSE Returns({})

\* a group that appends each repetition's text to the text it holds already
CaptureGroupMatcher_match_accumulating(m, line, st) ==
    LET next_states == Match(m.matcher, line, st) IN
    IF next_states.hang THEN Diverges
    ELSE Returns({MatchState(next_state.pos,
                             SetGroup(next_state.groups, m.group_id,
                                      (IF HasGroup(next_state.groups, m.group_id)
                                       THEN GetGroup(next_state.groups, m.group_id)
                                       ELSE <<>>)
                                      \o Slice(line, st.pos, next_state.pos)))
                  : next_state \in next_states.states})

CaptureGroupMatcher_match(m, line, st) ==
    LET next_states == Match(m.matcher, line, st) IN
    IF next_states.hang THEN Diverges
    ELSE Returns({MatchState(next_state.pos,
                             SetGroup(next_state.groups, m.group_id,
                                      Slice(line, st.pos, next_state.pos)))
                  : next_state \in next_states.states})

\* a backreference that reads a group with no capture as the empty text
BackreferenceMatcher_match_unbound_empty(m, line, st) ==
    LET group_match == IF HasGroup(st.groups, m.group_id)
                       THEN GetGroup(st.groups, m.group_id) ELSE <<>>
        match_len == Len(group_match)
    IN  IF st.pos + match_len <= Len(line)
           /\ Slice(line, st.pos, st.pos + match_len) = group_match
        THEN Returns({MatchState(st.pos + match_len, st.groups)})
        ELSE Returns({})

BackreferenceMatcher_match(m, line, st) ==
    IF HasGroup(st.groups, m.group_id)
    THEN LET group_match == GetGroup(st.groups, m.group_id)
             match_len == Len(group_match)
         IN  IF st.pos + match_len <= Len(line)
                /\ Slice(line, st.pos, st.pos + match_len) = group_match
             THEN Returns({MatchState(st.pos + match_len, st.groups)})
             ELSE Returns({})
    ELSE Returns({})

\* m.match(line, st): dispatch on the matcher's class
Match(m, line, st) ==
    CASE m.k = "Literal" -> LiteralMatcher_match(m, line, st)
      [] m.k = "Digit" -> DigitMatcher_match(m, line, st)
      [] m.k = "Word" -> WordMatcher_match(m, line, st)
      [] m.k = "Sequence" -> SequenceMatcher_match(m, line, st)
      [] m.k = "Alternation" -> AlternationMatcher_match(m, line, st)
      [] m.k = "Optional" -> OptionalMatcher_match(m, line, st)
      [] m.k = "Plus" -> PlusMatcher_match(m, line, st)
      [] m.k = "Star" -> StarMatcher_match(m, line, st)
      [] m.k = "AnchorStart" -> AnchorStartMatcher_match(m, line, st)
      [] m.k = "AnchorEnd" -> AnchorEndMatcher_match(m, line, st)
      [] m.k = "Any" -> AnyMatcher_match(m, line, st)
      [] m.k = "CharClass" -> CharClassMatcher_match(m, line, st)
      [] m.k = "CaptureGroup" -> CaptureGroupMatcher_match(m, line, st)
      [] m.k = "Backreference" -> BackreferenceMatcher_match(m, line, st)

----------------------------------------------------------------------------
(* Matcher.match on objects.  A groups dict is a cell of the heap, named   *)
(* by its reference (its index in heap); a MatchState object is            *)
(* [pos, ref], ref naming the dict it holds.  No code assigns pos, and     *)
(* every MatchState(...) call is given a dict made for it, so one          *)
(* reference stands for the MatchState object and for its dict.  A match   *)
(* call returns the set of objects and the heap as it leaves it.  A set    *)
(* holds objects by the equality of MatchState.__eq__: adding an object    *)
(* equal to a member leaves the member.  The order in which a for loop     *)
(* visits a set decides only which references the copies get.              *)

Object(pos, ref) == [pos |-> pos, ref |-> ref]

Out(objects, h) == [states |-> objects, heap |-> h]

\* the MatchState value an object stands for
Value(o, h) == MatchState(o.pos, h[o.ref])

\* {MatchState(pos, dict(state.groups))}
Fresh(pos, o, h) == Out({Object(pos, Len(h) + 1)}, Append(h, h[o.ref]))

\* A |= B
SetUpdate(A, B, h) ==
    A \cup {b \in B : ~\E a \in A : Value(a, h) = Value(b, h)}

RECURSIVE HeapMatch(_, _, _, _)

LiteralMatcher_match_heap(m, line, o, h) ==
    IF o.pos < Len(line) /\ line[o.pos + 1] = m.char
    THEN Fresh(o.pos + 1, o, h) ELSE Out({}, h)

DigitMatcher_match_heap(m, line, o, h) ==
    IF o.pos < Len(line) /\ isdigit(line[o.pos + 1])
    THEN Fresh(o.pos + 1, o, h) ELSE Out({}, h)

WordMatcher_match_heap(m, line, o, h) ==
    IF o.pos < Len(line) /\ (isalnum(line[o.pos + 1]) \/ line[o.pos + 1] = "_")
    THEN Fresh(o.pos + 1, o, h) ELSE Out({}, h)

\* next_states = set(); for st in todo: next_states |= m.match(line, st)
RECURSIVE ForEach_heap(_, _, _, _, _)
ForEach_heap(m, line, todo, next_states, h) ==
    IF todo = {} THEN Out(next_states, h)
    ELSE LET st == CHOOSE o \in todo : TRUE
             r == HeapMatch(m, line, st, h)
         IN  ForEach_heap(m, line, todo \ {st},
                          SetUpdate(next_states, r.states, r.heap), r.heap)

RECURSIVE SequenceMatcher_loop_heap(_, _, _, _, _)
SequenceMatcher_loop_heap(matchers, j, line, objects, h) ==
    IF j > Len(matchers) THEN Out(objects, h)
    ELSE LET next_states == ForEach_heap(matchers[j], line, objects, {}, h) IN
         IF next_states.states = {} THEN Out({}, next_states.heap)
         ELSE SequenceMatcher_loop_heap(matchers, j + 1, line, next_states.states,
                                        next_states.heap)

SequenceMatcher_match_heap(m, line, o, h) ==
    SequenceMatcher_loop_heap(m.matchers, 1, line, {o}, h)

AlternationMatcher_match_heap(m, line, o, h) ==
    LET l == HeapMatch(m.left, line, o, h)
        r == HeapMatch(m.right, line, o, l.heap)
    IN  Out(SetUpdate(l.states, r.states, r.heap), r.heap)

OptionalMatcher_match_heap(m, line, o, h) ==
    LET r == HeapMatch(m.matcher, line, o, h)
        copy == Fresh(o.pos, o, r.heap)
    IN  Out(SetUpdate(r.states, copy.states, copy.heap), copy.heap)

RECURSIVE PlusMatcher_loop_heap(_, _, _, _, _)
PlusMatcher_loop_heap(m, line, objects, last, h) ==
    IF last = {} THEN Out(objects, h)
    ELSE LET next_states == ForEach_heap(m.matcher, line, last, {}, h) IN
         IF next_states.states = {} THEN Out(objects, next_states.heap)
         ELSE PlusMatcher_loop_heap(m, line,
                                    SetUpdate(objects, next_states.states, next_states.heap),
                                    next_states.states, next_states.heap)

PlusMatcher_match_heap(m, line, o, h) ==
    LET first == HeapMatch(m.matcher, line, o, h) IN
    IF first.states = {} THEN Out({}, first.heap)
    ELSE PlusMatcher_loop_heap(m, line, first.states, first.states, first.heap)

RECURSIVE StarMatcher_loop_heap(_, _, _, _, _)
StarMatcher_loop_heap(m, line, objects, current, h) ==
    IF current = {} THEN Out(objects, h)
    ELSE LET next_states == ForEach_heap(m.matcher, line, current, {}, h) IN
         StarMatcher_loop_heap(m, line,
                               SetUpdate(objects, next_states.states, next_states.heap),
                               next_states.states, next_states.heap)

\* states = {state}: the object received, not a copy of it
StarMatcher_match_heap(m, line, o, h) == StarMatcher_loop_heap(m, line, {o}, {o}, h)

AnchorStartMatcher_match_heap(m, line, o, h) ==
    IF o.pos = 0 THEN Fresh(0, o, h) ELSE Out({}, h)

AnchorEndMatcher_match_heap(m, line, o, h) ==
    IF o.pos = Len(line) THEN Fresh(o.pos, o, h) ELSE Out({}, h)

AnyMatcher_match_heap(m, line, o, h) ==
    IF o.pos < Len(line) THEN Fresh(o.pos + 1, o, h) ELSE Out({}, h)

CharClassMatcher_match_heap(m, line, o, h) ==
    IF o.pos >= Len(line) THEN Out({}, h)
    ELSE LET ch == line[o.pos + 1]
             matches == IF m.is_negated THEN ch \notin m.charset ELSE ch \in m.charset
         IN  IF matches THEN Fresh(o.pos + 1, o, h) ELSE Out({}, h)

\* a group that writes its capture into the dict of the state it was handed
CaptureGroupMatcher_add_in_place(m, line, o, next_state, result, h) ==
    LET written == [h EXCEPT ![next_state.ref] =
                        SetGroup(h[next_state.ref], m.group_id,
                                 Slice(line, o.pos, next_state.pos))]
    IN  Out(SetUpdate(result, {Object(next_state.pos, next_state.ref)}, written), written)

\* the body of CaptureGroupMatcher.match's for loop
CaptureGroupMatcher_add(m, line, o, next_state, result, h) ==
    LET new_groups == Len(h) + 1
        copied == Append(h, h[next_state.ref])
        captured == Slice(line, o.pos, next_state.pos)
        written == [copied EXCEPT ![new_groups] = SetGroup(copied[new_groups], m.group_id,
                                                           captured)]
    IN  Out(SetUpdate(result, {Object(next_state.pos, new_groups)}, written), written)

RECURSIVE CaptureGroupMatcher_loop_heap(_, _, _, _, _, _)
CaptureGroupMatcher_loop_heap(m, line, o, todo, result, h) ==
    IF todo = {} THEN Out(result, h)
    ELSE LET next_state == CHOOSE n \in todo : TRUE
             added == CaptureGroupMatcher_add(m, line, o, next_state, result, h)
         IN  CaptureGroupMatcher_loop_heap(m, line, o, todo \ {next_state},
                                           added.states, added.heap)

CaptureGroupMatcher_match_heap(m, line, o, h) ==
    LET next_states == HeapMatch(m.matcher, line, o, h) IN
    CaptureGroupMatcher_loop_heap(m, line, o, next_states.states, {}, next_states.heap)

BackreferenceMatcher_match_heap(m, line, o, h) ==
    IF HasGroup(h[o.ref], m.group_id)
    THEN LET group_match == GetGroup(h[o.ref], m.group_id)
             match_len == Len(group_match)
         IN  IF o.pos + match_len <= Len(line)
                /\ Slice(line, o.pos, o.pos + match_len) = group_match
             THEN Fresh(o.pos + match_len, o, h)
             ELSE Out({}, h)
    ELSE Out({}, h)

\* m.match(line, o) on the heap h
HeapMatch(m, line, o, h) ==
    CASE m.k = "Literal" -> LiteralMatcher_match_heap(m, line, o, h)
      [] m.k = "Digit" -> DigitMatcher_match_heap(m, line, o, h)
      [] m.k = "Word" -> WordMatcher_match_heap(m, line, o, h)
      [] m.k = "Sequence" -> SequenceMatcher_match_heap(m, line, o, h)
      [] m.k = "Alternation" -> AlternationMatcher_match_heap(m, line, o, h)
      [] m.k = "Optional" -> OptionalMatcher_match_heap(m, line, o, h)
      [] m.k = "Plus" -> PlusMatcher_match_heap(m, line, o, h)
      [] m.k = "Star" -> StarMatcher_match_heap(m, line, o, h)
      [] m.k = "AnchorStart" -> AnchorStartMatcher_match_heap(m, line, o, h)
      [] m.k = "AnchorEnd" -> AnchorEndMatcher_match_heap(m, line, o, h)
      [] m.k = "Any" -> AnyMatcher_match_heap(m, line, o, h)
      [] m.k = "CharClass" -> CharClassMatcher_match_heap(m, line, o, h)
      [] m.k = "CaptureGroup" -> CaptureGroupMatcher_match_heap(m, line, o, h)
      [] m.k = "Backreference" -> BackreferenceMatcher_match_heap(m, line, o, h)

----------------------------------------------------------------------------
(* Bounded inputs *)

MaxPieces == 2
MaxLine == 3
MaxParsePieces == 6
MaxCapture == 2

\* every text made of at most n of the given pieces, in any order
RECURSIVE Texts(_, _)
Texts(pieces, n) ==
    IF n = 0 THEN {<<>>}
    ELSE LET shorter == Texts(pieces, n - 1) IN
         shorter \cup {t \o piece : t \in shorter, piece \in pieces}

\* patterns handed to match_pattern
PatternPieces ==
    {<<"a">>, <<"b">>, <<"^">>, <<"$">>, <<"+">>, <<"*">>, <<"?">>, <<"|">>,
     <<"a", "?">>, <<"\\", "1">>,
     <<"(", "a", "|", "b", ")">>,
     <<"(", "a", "|", "b", ")", "+">>,
     <<"(", "a", "|", "b", ")", "*">>}

Patterns == Texts(PatternPieces, MaxPieces)

Lines == Texts({<<"a">>, <<"b">>}, MaxLine)

\* patterns that exercise the parser
ParsePieces ==
    {<<"(">>, <<")">>, <<"|">>, <<"\\", "(">>, <<"[", "(", "]">>}

ParsePatterns == Texts(ParsePieces, MaxParsePieces)

ParseLines == {<<>>, <<"(">>}

\* single matchers, lines and MatchStates handed to one match call
ProbePatterns ==
    {<<".">>, <<"a">>, <<"\\", "1">>, <<"\\", "2">>, <<"\\", "1", "2">>,
     <<"(", "\\", "1", ")">>, <<"^", "*">>, <<"(", "a">>}

ProbeLines == Texts({<<"a">>, <<"\n">>}, MaxLine)

ProbeTexts == Texts({<<"a">>, <<"\n">>}, MaxCapture)

ProbeGroups ==
    {{}} \cup {{<<1, t>>} : t \in ProbeTexts}
         \cup {{<<1, t>>, <<2, u>>} : t \in ProbeTexts, u \in ProbeTexts}

\* quantified atoms whose loops are followed pass by pass; no atom holds a
\* quantifier loop of its own, so the atom's own match call always returns
LoopAtoms ==
    {<<"a">>, <<".">>, <<"^">>, <<"$">>, <<"(", "a", ")">>, <<"(", "a", "?", ")">>,
     <<"(", "a", "|", "b", ")">>, <<"(", "a", "|", "$", ")">>}

LoopPatterns == {atom \o q : atom \in LoopAtoms, q \in {<<"+">>, <<"*">>}}

\* patterns whose match call is followed object by object
HeapPieces ==
    {<<"a">>, <<"+">>, <<"*">>, <<"|">>, <<"\\", "1">>,
     <<"(", "a", ")">>, <<"(", "a", "*", ")">>, <<"(", "b", "?", ")">>}

HeapPatterns == Texts(HeapPieces, MaxPieces)

\* the groups dict of the state a match call is handed
HeapGroups == {{}, {<<1, <<"b">>>>}}

----------------------------------------------------------------------------
(* match_pattern *)

\* a loop that stops one offset short: range(n)
range_stop_exclusive(n) == n

\* range(n + 1)'s stop
range_stop(n) == n + 1

Init ==
    /\ pattern \in Patterns
    /\ input_line \in Lines
    /\ pc = "called"
    /\ matcher = NoMatcher
    /\ error = ""
    /\ start_pos = 0
    /\ states = {}
    /\ verdict = "none"
    /\ state = MatchState(0, {})
    /\ last_iter_states = {}
    /\ iterations = 0
    /\ heap = <<>>
    /\ results = {}

\* parser = PatternParser(pattern); matcher = parser.parse(), and the except clause
Compile ==
    /\ pc = "called"
    /\ LET res == parse(pattern) IN
       \/ /\ res.err = ""
          /\ matcher' = res.node
          /\ pc' = "compiled"
          /\ UNCHANGED <<error, verdict>>
       \/ /\ res.err # ""
          /\ error' = res.err
          /\ verdict' = "False"
          /\ pc' = "done"
          /\ UNCHANGED matcher
    /\ UNCHANGED <<pattern, input_line, start_pos, states, state, last_iter_states,
                   iterations>>
    /\ UNCHANGED <<heap, results>>

\* one pass of the for loop over start_pos
TryOffset ==
    /\ pc = "compiled"
    /\ start_pos < range_stop(Len(input_line))
    /\ LET res == Match(matcher, input_line, MatchState(start_pos, {})) IN
       \/ /\ res.hang
          /\ pc' = "hang"
          /\ UNCHANGED <<states, verdict, start_pos>>
       \/ /\ ~res.hang
          /\ res.states # {}
          /\ states' = res.states
          /\ verdict' = "True"
          /\ pc' = "done"
          /\ UNCHANGED start_pos
       \/ /\ ~res.hang
          /\ res.states = {}
          /\ states' = res.states
          /\ start_pos' = start_pos + 1
          /\ UNCHANGED <<pc, verdict>>
    /\ UNCHANGED <<pattern, input_line, matcher, error, state, last_iter_states,
                   iterations>>
    /\ UNCHANGED <<heap, results>>

\* the for loop is exhausted: return False
ReturnFalse ==
    /\ pc = "compiled"
    /\ start_pos >= range_stop(Len(input_line))
    /\ verdict' = "False"
    /\ pc' = "done"
    /\ UNCHANGED <<pattern, input_line, matcher, error, start_pos, states, state,
                   last_iter_states, iterations>>
    /\ UNCHANGED <<heap, results>>

Next == Compile \/ TryOffset \/ ReturnFalse

Spec == Init /\ [][Next]_vars

----------------------------------------------------------------------------
(* match_pattern on patterns that exercise the parser *)

ParseInit ==
    /\ pattern \in ParsePatterns
    /\ input_line \in ParseLines
    /\ pc = "called"
    /\ matcher = NoMatcher
    /\ error = ""
    /\ start_pos = 0
    /\ states = {}
    /\ verdict = "none"
    /\ state = MatchState(0, {})
    /\ last_iter_states = {}
    /\ iterations = 0
    /\ heap = <<>>
    /\ results = {}

ParseSpec == ParseInit /\ [][Next]_vars

----------------------------------------------------------------------------
(* One matcher.match(line, state) call on an arbitrary MatchState *)

ProbeInit ==
    /\ pattern \in ProbePatterns
    /\ input_line \in ProbeLines
    /\ state \in {MatchState(pos, groups) : pos \in 0..Len(input_line),
                                            groups \in ProbeGroups}
    /\ pc = "called"
    /\ matcher = NoMatcher
    /\ error = ""
    /\ start_pos = 0
    /\ states = {}
    /\ verdict = "none"
    /\ last_iter_states = {}
    /\ iterations = 0
    /\ heap = <<>>
    /\ results = {}

Apply ==
    /\ pc = "compiled"
    /\ LET res == Match(matcher, input_line, state) IN
       \/ /\ res.hang
          /\ pc' = "hang"
          /\ UNCHANGED states
       \/ /\ ~res.hang
          /\ states' = res.states
          /\ pc' = "applied"
    /\ UNCHANGED <<pattern, input_line, matcher, error, start_pos, verdict, state,
                   last_iter_states, iterations>>
    /\ UNCHANGED <<heap, results>>

ProbeNext == Compile \/ Apply

ProbeSpec == ProbeInit /\ [][ProbeNext]_vars

----------------------------------------------------------------------------
(* One matcher.match(line, state) call followed on the heap: state is the  *)
(* object of reference 1, the only one that exists when the call starts.   *)

HeapInit ==
    /\ pattern \in HeapPatterns
    /\ input_line \in Lines
    /\ state \in {MatchState(pos, groups) : pos \in 0..Len(input_line),
                                            groups \in HeapGroups}
    /\ heap = <<state.groups>>
    /\ results = {}
    /\ pc = "called"
    /\ matcher = NoMatcher
    /\ error = ""
    /\ start_pos = 0
    /\ states = {}
    /\ verdict = "none"
    /\ last_iter_states = {}
    /\ iterations = 0

ApplyOnHeap ==
    /\ pc = "compiled"
    /\ IF Match(matcher, input_line, state).hang
       THEN pc' = "hang" /\ UNCHANGED <<heap, results>>
       ELSE LET out == HeapMatch(matcher, input_line, Object(state.pos, 1), heap) IN
            /\ heap' = out.heap
            /\ results' = out.states
            /\ pc' = "applied"
    /\ UNCHANGED <<pattern, input_line, matcher, error, start_pos, states, verdict, state,
                   last_iter_states, iterations>>

HeapNext == Compile \/ ApplyOnHeap

HeapSpec == HeapInit /\ [][HeapNext]_vars

----------------------------------------------------------------------------
(* PlusMatcher.match and StarMatcher.match, one pass of the while loop at  *)
(* a time.  iterations counts the passes modulo 2, so that a pass that     *)
(* leaves the loop variables as they were is still a step.                 *)

LoopInit ==
    /\ pattern \in LoopPatterns
    /\ input_line \in Lines
    /\ state \in {MatchState(pos, {}) : pos \in 0..Len(input_line)}
    /\ matcher = parse(pattern).node
    /\ pc = "entered"
    /\ error = ""
    /\ start_pos = 0
    /\ states = {}
    /\ verdict = "none"
    /\ last_iter_states = {}
    /\ iterations = 0
    /\ heap = <<>>
    /\ results = {}

\* PlusMatcher.match up to its while loop
PlusEnter ==
    /\ pc = "entered"
    /\ matcher.k = "Plus"
    /\ LET first == Match(matcher.matcher, input_line, state) IN
       /\ ~first.hang
       /\ states' = first.states
       /\ IF first.states = {}
          THEN pc' = "returned" /\ UNCHANGED last_iter_states
          ELSE pc' = "plus_loop" /\ last_iter_states' = first.states
    /\ UNCHANGED <<pattern, input_line, matcher, error, start_pos, verdict, state,
                   iterations>>
    /\ UNCHANGED <<heap, results>>

\* the while test and one pass of the loop body (break included)
PlusIterate ==
    /\ pc = "plus_loop"
    /\ IF last_iter_states = {}
       THEN pc' = "returned" /\ UNCHANGED <<states, last_iter_states, iterations>>
       ELSE LET it == PlusMatcher_iteration(matcher, input_line, states,
                                            last_iter_states) IN
            /\ ~it.hang
            /\ states' = it.states
            /\ last_iter_states' = it.last
            /\ pc' = IF it.exit THEN "returned" ELSE "plus_loop"
            /\ iterations' = (iterations + 1) % 2
    /\ UNCHANGED <<pattern, input_line, matcher, error, start_pos, verdict, state>>
    /\ UNCHANGED <<heap, results>>

\* StarMatcher.match up to its while loop
StarEnter ==
    /\ pc = "entered"
    /\ matcher.k = "Star"
    /\ states' = {state}
    /\ last_iter_states' = {state}
    /\ pc' = "star_loop"
    /\ UNCHANGED <<pattern, input_line, matcher, error, start_pos, verdict, state,
                   iterations>>
    /\ UNCHANGED <<heap, results>>

\* the while test and one pass of the loop body
StarIterate ==
    /\ pc = "star_loop"
    /\ IF last_iter_states = {}
       THEN pc' = "returned" /\ UNCHANGED <<states, last_iter_states, iterations>>
       ELSE LET it == StarMatcher_iteration(matcher, input_line, states,
                                            last_iter_states) IN
            /\ ~it.hang
            /\ states' = it.states
            /\ last_iter_states' = it.current
            /\ pc' = "star_loop"
            /\ iterations' = (iterations + 1) % 2
    /\ UNCHANGED <<pattern, input_line, matcher, error, start_pos, verdict, state>>
    /\ UNCHANGED <<heap, results>>

LoopNext == PlusEnter \/ PlusIterate \/ StarEnter \/ StarIterate

LoopSpec == LoopInit /\ [][LoopNext]_vars

\* the interpreter runs the loop on: a pass that can be taken is taken
FairLoopSpec == LoopSpec /\ WF_vars(LoopNext)

----------------------------------------------------------------------------
(* C1.  Termination: every PlusMatcher.match and StarMatcher.match call    *)
(* returns, whatever the quantified atom, among them a group or an anchor  *)
(* that succeeds without consuming a character; so match_pattern returns.  *)

\* C1: the quantifier loop entered on any atom, line and offset eventually
\* exits and the match call returns
C1_LoopsExit == <>(pc = "returned")

----------------------------------------------------------------------------
(* The pattern text as the claims read it *)

\* The positions (from 1) of the characters of p that stand for themselves as
\* syntax: not escaped by a backslash and not inside a character class.
RECURSIVE SyntaxPositions(_, _, _)
SyntaxPositions(p, i, in_class) ==
    IF i > Len(p) THEN {}
    ELSE IF p[i] = "\\" THEN SyntaxPositions(p, i + 2, in_class)
    ELSE IF in_class THEN SyntaxPositions(p, i + 1, p[i] # "]")
    ELSE IF p[i] = "["
    THEN SyntaxPositions(p, IF i < Len(p) /\ p[i + 1] = "^" THEN i + 2 ELSE i + 1, TRUE)
    ELSE {i} \cup SyntaxPositions(p, i + 1, FALSE)

IsSyntax(p, i, chars) == i \in SyntaxPositions(p, 1, FALSE) /\ p[i] \in chars

\* a + or ? with no atom before it: first in the pattern, or right after ( or |
DanglingQuantifier(p) ==
    \E i \in 1..Len(p) :
        /\ IsSyntax(p, i, {"+", "?"})
        /\ i = 1 \/ IsSyntax(p, i - 1, {"(", "|"})

\* a | with nothing on one of its sides
EmptyBranch(p) ==
    \E i \in 1..Len(p) :
        /\ IsSyntax(p, i, {"|"})
        /\ \/ i = 1
           \/ i = Len(p)
           \/ IsSyntax(p, i - 1, {"(", "|"})
           \/ IsSyntax(p, i + 1, {")", "|"})

\* the ( characters that open a group
GroupOpeners(p) == {i \in 1..Len(p) : IsSyntax(p, i, {"("})}

\* every ( character of the text
OpenParenCharacters(p) == {i \in 1..Len(p) : p[i] = "("}

\* the group ids of the CaptureGroupMatcher nodes of m, an outer group before
\* the groups inside it, the rest left to right
RECURSIVE GroupIds(_)
RECURSIVE GroupIdsOfAll(_)
GroupIdsOfAll(matchers) ==
    IF Len(matchers) = 0 THEN <<>>
    ELSE GroupIds(Head(matchers)) \o GroupIdsOfAll(Tail(matchers))

GroupIds(m) ==
    CASE m.k = "CaptureGroup" -> <<m.group_id>> \o GroupIds(m.matcher)
      [] m.k = "Sequence" -> GroupIdsOfAll(m.matchers)
      [] m.k = "Alternation" -> GroupIds(m.left) \o GroupIds(m.right)
      [] m.k \in {"Optional", "Plus", "Star"} -> GroupIds(m.matcher)
      [] OTHER -> <<>>

----------------------------------------------------------------------------
(* C2.  A + or ? with no preceding atom is a pattern error. *)

\* C2: when the pattern holds a + or ? with no atom before it, the compile
\* fails and match_pattern returns False
C2_DanglingQuantifierRejected ==
    (pc = "done" /\ DanglingQuantifier(pattern)) => (error # "" /\ verdict = "False")

----------------------------------------------------------------------------
(* C3.  Empty alternative branches. *)

\* C3 as stated: a pattern with an empty alternative branch compiles
C3_EmptyBranchCompiles ==
    (pc # "called" /\ EmptyBranch(pattern)) => error = ""

\* C3 as amended: a pattern with an empty alternative branch never compiles;
\* the parser raises ValueError and match_pattern returns False without
\* trying any offset
C3_EmptyBranchRejected ==
    (pc # "called" /\ EmptyBranch(pattern)) =>
        (error # "" /\ pc = "done" /\ verdict = "False" /\ matcher = NoMatcher
         /\ start_pos = 0)

\* \((|\() on the line "(": the empty branch of the group is refused
C3_Witness ==
    /\ pc = "done"
    /\ pattern = <<"\\", "(", "(", "|", "\\", "(", ")">>
    /\ input_line = <<"(">>
    /\ error = "Empty term in pattern"
    /\ verdict = "False"

----------------------------------------------------------------------------
(* C4.  Capture-group ids. *)

\* C4 as stated: the ids are 1..n in the order of the opening parentheses,
\* n being the number of ( characters of the pattern
C4_IdsCountEveryParen ==
    (pc # "called" /\ error = "") =>
        GroupIds(matcher) = [j \in 1..Cardinality(OpenParenCharacters(pattern)) |-> j]

\* C4 as amended: the ids are 1..n in the order of the opening parentheses,
\* n being the number of ( characters that open a group (those neither
\* escaped nor inside a character class)
C4_IdsFollowGroupOpeners ==
    (pc # "called" /\ error = "") =>
        GroupIds(matcher) = [j \in 1..Cardinality(GroupOpeners(pattern)) |-> j]

\* \((([(])): a literal parenthesis, then a group with a group nested in it
\* around a class that holds a parenthesis
C4_Witness ==
    /\ pc = "done"
    /\ error = ""
    /\ pattern = <<"\\", "(", "(", "(", "[", "(", "]", ")", ")">>
    /\ GroupIds(matcher) = <<1, 2>>
    /\ matcher.matchers[2].group_id = 1
    /\ matcher.matchers[2].matcher.group_id = 2
    /\ verdict = "False"

----------------------------------------------------------------------------
(* C5.  The search policy of match_pattern. *)

RECURSIVE NoAnchor(_)
NoAnchor(m) ==
    CASE m.k \in {"AnchorStart", "AnchorEnd"} -> FALSE
      [] m.k = "Sequence" -> \A j \in 1..Len(m.matchers) : NoAnchor(m.matchers[j])
      [] m.k = "Alternation" -> NoAnchor(m.left) /\ NoAnchor(m.right)
      [] m.k \in {"Optional", "Plus", "Star", "CaptureGroup"} -> NoAnchor(m.matcher)
      [] OTHER -> TRUE

BeginsWithStartAnchor(m) ==
    \/ m.k = "AnchorStart"
    \/ m.k = "Sequence" /\ m.matchers[1].k = "AnchorStart"

EndsWithEndAnchor(m) ==
    \/ m.k = "AnchorEnd"
    \/ m.k = "Sequence" /\ m.matchers[Len(m.matchers)].k = "AnchorEnd"

\* the result states of the matcher from start offset k (none when the call hangs)
StatesFrom(k) == Match(matcher, input_line, MatchState(k, {})).states

\* C5: without anchors the verdict is True exactly when some start offset in
\* 0..len(S) yields a result state; a pattern that begins with ^ yields
\* states from offset 0 only; one that ends with $ yields only states whose
\* pos is len(S)
C5_SearchPolicy ==
    (pc = "done" /\ error = "") =>
        /\ NoAnchor(matcher) =>
              ((verdict = "True") <=> \E k \in 0..Len(input_line) : StatesFrom(k) # {})
        /\ BeginsWithStartAnchor(matcher) =>
              /\ \A k \in 1..Len(input_line) : StatesFrom(k) = {}
              /\ verdict = "True" => start_pos = 0
        /\ EndsWithEndAnchor(matcher) =>
              /\ \A k \in 0..Len(input_line) :
                    \A r \in StatesFrom(k) : r.pos = Len(input_line)
              /\ verdict = "True" => \A r \in states : r.pos = Len(input_line)

\* an unanchored pattern found at a later start offset, by a result state that
\* stops before the end of the line
C5_Witness ==
    /\ pc = "done"
    /\ verdict = "True"
    /\ NoAnchor(matcher)
    /\ start_pos > 0
    /\ \E r \in states : r.pos < Len(input_line)

----------------------------------------------------------------------------
(* C9.  A reference matcher: depth-first, one path at a time.  nodes is    *)
(* what is left to match; alternatives are tried left to right and a      *)
(* repetition first tries one more round, then the rest of the pattern.    *)
(* A leaf tests one character as the matcher of its class does.  The       *)
(* answer is "match", "fail" or, when the search comes back to a           *)
(* repetition with the offset and captures it had there before, "loop".    *)

CloseGroup(group_id, start) == [k |-> "Close", group_id |-> group_id, start |-> start]

RefAccepts(n, c) ==
    CASE n.k = "Literal" -> c = n.char
      [] n.k = "Digit" -> isdigit(c)
      [] n.k = "Word" -> isalnum(c) \/ c = "_"
      [] n.k = "Any" -> TRUE
      [] n.k = "CharClass" -> (c \in n.charset) # n.is_negated

RefTextAt(line, offset, text) ==
    /\ offset + Len(text) <= Len(line)
    /\ \A j \in 1..Len(text) : line[offset + j] = text[j]

RECURSIVE RefAttempt(_, _, _, _, _)
RefAttempt(nodes, line, offset, captures, path) ==
    IF Len(nodes) = 0 THEN "match"
    ELSE LET n == Head(nodes)
             rest == Tail(nodes)
         IN
         CASE n.k \in {"Literal", "Digit", "Word", "Any", "CharClass"} ->
                IF offset < Len(line) /\ RefAccepts(n, line[offset + 1])
                THEN RefAttempt(rest, line, offset + 1, captures, path)
                ELSE "fail"
           [] n.k = "AnchorStart" ->
                IF offset = 0 THEN RefAttempt(rest, line, offset, captures, path)
                ELSE "fail"
           [] n.k = "AnchorEnd" ->
                IF offset = Len(line) THEN RefAttempt(rest, line, offset, captures, path)
                ELSE "fail"
           [] n.k = "Backreference" ->
                IF /\ HasGroup(captures, n.group_id)
                   /\ RefTextAt(line, offset, GetGroup(captures, n.group_id))
                THEN RefAttempt(rest, line,
                                offset + Len(GetGroup(captures, n.group_id)),
                                captures, path)
                ELSE "fail"
           [] n.k = "CaptureGroup" ->
                RefAttempt(<<n.matcher, CloseGroup(n.group_id, offset)>> \o rest,
                           line, offset, captures, path)
           [] n.k = "Close" ->
                RefAttempt(rest, line, offset,
                           SetGroup(captures, n.group_id, Slice(line, n.start, offset)),
                           path)
           [] n.k = "Sequence" ->
                RefAttempt(n.matchers \o rest, line, offset, captures, path)
           [] n.k = "Alternation" ->
                LET first == RefAttempt(<<n.left>> \o rest, line, offset, captures, path)
                IN  IF first = "fail"
                    THEN RefAttempt(<<n.right>> \o rest, line, offset, captures, path)
                    ELSE first
           [] n.k = "Optional" ->
                LET first == RefAttempt(<<n.matcher>> \o rest, line, offset, captures,
                                        path)
                IN  IF first = "fail"
                    THEN RefAttempt(rest, line, offset, captures, path)
                    ELSE first
           [] n.k = "Plus" ->
                RefAttempt(<<n.matcher, StarMatcher(n.matcher)>> \o rest, line, offset,
                           captures, path)
           [] n.k = "Star" ->
                IF <<nodes, offset, captures>> \in path THEN "loop"
                ELSE LET first == RefAttempt(<<n.matcher>> \o nodes, line, offset,
                                             captures,
                                             path \cup {<<nodes, offset, captures>>})
                     IN  IF first = "fail"
                         THEN RefAttempt(rest, line, offset, captures, path)
                         ELSE first

RECURSIVE RefSearch(_, _, _)
RefSearch(m, line, k) ==
    IF k > Len(line) THEN "fail"
    ELSE LET first == RefAttempt(<<m>>, line, k, {}, {}) IN
         IF first = "fail" THEN RefSearch(m, line, k + 1) ELSE first

\* C9: when match_pattern returns, the reference matcher returns too, and
\* with the same verdict
C9_SameVerdictAsReference ==
    (pc = "done" /\ error = "") =>
        \/ (verdict = "True" /\ RefSearch(matcher, input_line, 0) = "match")
        \/ (verdict = "False" /\ RefSearch(matcher, input_line, 0) = "fail")

\* (a|b)+b on "ab": the longest repetition leaves no b, the shorter one does
C9_Witness ==
    /\ pc = "done"
    /\ pattern = <<"(", "a", "|", "b", ")", "+", "b">>
    /\ input_line = <<"a", "b">>
    /\ verdict = "True"
    /\ states = {MatchState(2, {<<1, <<"a">>>>})}
    /\ RefSearch(matcher, input_line, 0) = "match"

----------------------------------------------------------------------------
(* C10.  A group under + or * keeps the text of its last repetition. *)

QuantifiedGroup(m) == m.k \in {"Plus", "Star"} /\ m.matcher.k = "CaptureGroup"

\* r is left by a repetition of the group q.matcher that entered at the offset
\* where r's capture begins, from the state of the call (from) or a state the
\* quantifier reached (reached), and r's capture is the text from there to r.pos
LastRepetition(q, line, from, reached, r) ==
    /\ HasGroup(r.groups, q.matcher.group_id)
    /\ LET text == GetGroup(r.groups, q.matcher.group_id)
           entry == r.pos - Len(text)
       IN  /\ entry >= from.pos
           /\ \A j \in 1..Len(text) : text[j] = line[entry + j]
           /\ \E s \in reached \cup {from} :
                 /\ s.pos = entry
                 /\ r \in Match(q.matcher, line, s).states

\* the states q yields from offset k
QuantifiedFrom(q, line, k) == Match(q, line, MatchState(k, {})).states

\* C10: every state a quantified group yields holds the text of the last
\* repetition only (a state of zero repetitions of * holds none), and a
\* backreference after the quantifier reads that text
C10_LastRepetitionKept ==
    (pc = "done" /\ verdict = "True") =>
        /\ QuantifiedGroup(matcher) =>
              \A r \in states :
                 \/ matcher.k = "Star" /\ r = MatchState(start_pos, {})
                 \/ LastRepetition(matcher, input_line, MatchState(start_pos, {}),
                                   states, r)
        /\ (/\ matcher.k = "Sequence"
            /\ Len(matcher.matchers) = 2
            /\ QuantifiedGroup(matcher.matchers[1])
            /\ matcher.matchers[2] = BackreferenceMatcher(matcher.matchers[1].matcher.group_id))
           => \A r \in states :
                 LET q == matcher.matchers[1]
                     text == GetGroup(r.groups, q.matcher.group_id)
                     before == MatchState(r.pos - Len(text), r.groups)
                 IN  /\ before \in QuantifiedFrom(q, input_line, start_pos)
                     /\ LastRepetition(q, input_line, MatchState(start_pos, {}),
                                       QuantifiedFrom(q, input_line, start_pos), before)
                     /\ \A j \in 1..Len(text) : input_line[before.pos + j] = text[j]

\* (a|b)+\1 on "abb": the group ran twice, holds "b", and \1 read the last "b"
C10_Witness ==
    /\ pc = "done"
    /\ pattern = <<"(", "a", "|", "b", ")", "+", "\\", "1">>
    /\ input_line = <<"a", "b", "b">>
    /\ verdict = "True"
    /\ start_pos = 0
    /\ states = {MatchState(3, {<<1, <<"b">>>>})}

----------------------------------------------------------------------------
(* C6.  Backreferences. *)

\* the pattern is a backslash and decimal digits
BackreferenceText(p) ==
    /\ Len(p) >= 2
    /\ p[1] = "\\"
    /\ \A j \in 2..Len(p) : isdigit(p[j])

\* C6: a backreference pattern compiles, whatever its id; its match call
\* returns, and yields one state, the offset advanced by the length of the
\* captured text and the captures as they were, exactly when the id has a
\* capture and the line holds that text at the offset; otherwise, and so when
\* the id has no capture (a group not opened, not yet closed, or an id above
\* the number of groups), it yields none
C6_Backreference ==
    /\ (pc # "called" /\ BackreferenceText(pattern)) =>
          (error = "" /\ matcher.k = "Backreference" /\ pc # "hang")
    /\ (pc = "applied" /\ matcher.k = "Backreference") =>
          states =
             IF /\ HasGroup(state.groups, matcher.group_id)
                /\ RefTextAt(input_line, state.pos, GetGroup(state.groups, matcher.group_id))
             THEN {MatchState(state.pos + Len(GetGroup(state.groups, matcher.group_id)),
                              state.groups)}
             ELSE {}
    /\ (/\ pc = "applied"
        /\ matcher = CaptureGroupMatcher(BackreferenceMatcher(1), 1)
        /\ ~HasGroup(state.groups, 1))
          => states = {}

\* \1 on a state whose group 1 holds two characters found at the offset
C6_Witness ==
    /\ pc = "applied"
    /\ matcher = BackreferenceMatcher(1)
    /\ HasGroup(state.groups, 1)
    /\ Len(GetGroup(state.groups, 1)) = 2
    /\ state.pos > 0
    /\ states = {MatchState(state.pos + 2, state.groups)}

----------------------------------------------------------------------------
(* C7.  The . atom. *)

\* C7: . yields no state at a newline or at the end of the line, and one state,
\* the offset advanced by one, at any other character
C7_AnyExceptNewline ==
    (pc = "applied" /\ matcher.k = "Any") =>
        states =
           IF state.pos < Len(input_line) /\ input_line[state.pos + 1] # "\n"
           THEN {MatchState(state.pos + 1, state.groups)}
           ELSE {}

----------------------------------------------------------------------------
(* C8.  Match calls and the objects they are handed. *)

\* the dicts that existed when the call started are as they were
DictsKept == heap[1] = state.groups

\* every result holds a dict made during the call
FreshDicts == \A o \in results : o.ref \in 2..Len(heap)

\* the matchers whose result can be the zero-repetition result of a *
RECURSIVE PassesStar(_)
PassesStar(m) ==
    CASE m.k = "Star" -> TRUE
      [] m.k \in {"Optional", "Plus"} -> PassesStar(m.matcher)
      [] m.k = "Alternation" -> PassesStar(m.left) \/ PassesStar(m.right)
      [] m.k = "Sequence" -> \A j \in 1..Len(m.matchers) : PassesStar(m.matchers[j])
      [] OTHER -> FALSE

\* no two MatchState objects hold one dict: a result either holds a dict made
\* during the call or is the very object the call was handed, which only the
\* zero-repetition result of a * can be
OwnDicts ==
    /\ \A o \in results : o.ref \in 1..Len(heap)
    /\ \A o \in results : o.ref = 1 => (o.pos = state.pos /\ PassesStar(matcher))
    /\ \A o1, o2 \in results : o1.ref = o2.ref => o1 = o2

\* the states returned are those of captures kept as values: what one branch
\* or repetition count binds shows in no state of another
NoLeak == {Value(o, heap) : o \in results} = Match(matcher, input_line, state).states

====
